---- MODULE Spec2Model ----
(***************************************************************************)
(* ACL Rehab Tracker, frontend client (App.jsx, MuscleActivationBar).      *)
(*                                                                         *)
(* The client keeps React state (data, history, smoothImu, muscleRange,    *)
(* calibrationStep, modalState, isCalibrating, ...), one WebSocket chain   *)
(* per effect run, and asynchronous handlers (resetSession,                *)
(* handleModalConfirm) that are suspended at each await.  The backend is   *)
(* not part of the sources; the little of it the client depends on (the    *)
(* snapshot stream and the answers of the three control endpoints) is      *)
(* modelled from the specification.                                        *)
(***************************************************************************)
EXTENDS Integers, Sequences, FiniteSets, TLC

(***************************************************************************)
(* Optional values: null / undefined is the empty sequence, a present      *)
(* value v is <<v>>.  a ?? b is Coalesce(a, b).                            *)
(***************************************************************************)
None == <<>>

Some(v) == <<v>>

IsSome(o) == o # <<>>

Coalesce(o, d) == IF o # <<>> THEN o[1] ELSE d

(***************************************************************************)
(* JavaScript Number arithmetic on the angles: IEEE 754 binary64, round to *)
(* nearest, ties to even.  A non-negative finite double is M * 2^e with    *)
(* the 53-bit integer M held as four base-2^14 limbs, least significant    *)
(* first, normalised so that 2^52 <= M < 2^53 (zero: all limbs 0, e = 0).  *)
(* The angles of the model are non-negative, so no sign is carried.        *)
(***************************************************************************)
LimbBits == 14

LimbBase == 2^14

MantBits == 53

Limb(a, j) == IF j >= 1 /\ j <= Len(a) THEN a[j] ELSE 0

RECURSIVE ColSum(_, _, _, _)
ColSum(a, b, k, i) ==
  IF i > Len(a) THEN 0
  ELSE (IF k + 1 - i >= 1 /\ k + 1 - i <= Len(b) THEN a[i] * b[k + 1 - i] ELSE 0)
       + ColSum(a, b, k, i + 1)

RECURSIVE MulCols(_, _, _, _)
MulCols(a, b, k, carry) ==
  IF k > Len(a) + Len(b) THEN <<>>
  ELSE LET s == ColSum(a, b, k, 1) + carry
       IN  <<s % LimbBase>> \o MulCols(a, b, k + 1, s \div LimbBase)

BigMul(a, b) == MulCols(a, b, 1, 0)

RECURSIVE AddCols(_, _, _, _, _)
AddCols(a, b, k, n, carry) ==
  IF k > n THEN <<>>
  ELSE LET s == Limb(a, k) + Limb(b, k) + carry
       IN  <<s % LimbBase>> \o AddCols(a, b, k + 1, n, s \div LimbBase)

BigAdd(a, b) ==
  AddCols(a, b, 1, (IF Len(a) > Len(b) THEN Len(a) ELSE Len(b)) + 1, 0)

\* a - b for a >= b
RECURSIVE SubCols(_, _, _, _)
SubCols(a, b, k, borrow) ==
  IF k > Len(a) THEN <<>>
  ELSE LET s == Limb(a, k) - Limb(b, k) - borrow
       IN  IF s < 0 THEN <<s + LimbBase>> \o SubCols(a, b, k + 1, 1)
           ELSE <<s>> \o SubCols(a, b, k + 1, 0)

BigSub(a, b) == SubCols(a, b, 1, 0)

RECURSIVE TopLimb(_, _)
TopLimb(a, j) == IF j = 0 THEN 0 ELSE IF a[j] # 0 THEN j ELSE TopLimb(a, j - 1)

RECURSIVE IntBits(_)
IntBits(n) == IF n = 0 THEN 0 ELSE 1 + IntBits(n \div 2)

BitLen(a) ==
  LET h == TopLimb(a, Len(a))
  IN  IF h = 0 THEN 0 ELSE LimbBits * (h - 1) + IntBits(a[h])

Pow2Big(d) == [j \in 1..(d \div LimbBits + 1) |->
                 IF j = d \div LimbBits + 1 THEN 2^(d % LimbBits) ELSE 0]

\* floor(a / 2^sh), as four limbs
BigShr(a, sh) ==
  LET q == sh \div LimbBits
      r == sh % LimbBits
  IN  [i \in 1..4 |-> (Limb(a, i + q) \div 2^r)
                      + (Limb(a, i + q + 1) % 2^r) * 2^(LimbBits - r)]

BitAt(a, k) == (Limb(a, k \div LimbBits + 1) \div 2^(k % LimbBits)) % 2

\* some bit of a below position k is set
LowBits(a, k) ==
  \/ Limb(a, k \div LimbBits + 1) % 2^(k % LimbBits) # 0
  \/ \E j \in 1..(k \div LimbBits) : Limb(a, j) # 0

FZero == [m |-> <<0, 0, 0, 0>>, e |-> 0]

\* the double nearest to a * 2^e (ties to even)
RoundF(a, e) ==
  LET len == BitLen(a)
  IN  IF len = 0 THEN FZero
      ELSE IF len <= MantBits
      THEN [m |-> SubSeq(BigMul(a, Pow2Big(MantBits - len)) \o <<0, 0, 0, 0>>, 1, 4),
            e |-> e - (MantBits - len)]
      ELSE LET sh == len - MantBits
               q  == BigShr(a, sh)
               up == BitAt(a, sh - 1) = 1 /\ (LowBits(a, sh - 1) \/ q[1] % 2 = 1)
               q1 == IF up THEN SubSeq(BigAdd(q, <<1>>), 1, 4) ELSE q
           IN  IF BitLen(q1) > MantBits
               THEN [m |-> <<0, 0, 0, 2^(MantBits - 1 - 3 * LimbBits)>>, e |-> e + sh + 1]
               ELSE [m |-> q1, e |-> e + sh]

FMul(x, y) == RoundF(BigMul(x.m, y.m), x.e + y.e)

FAdd(x, y) ==
  IF x = FZero THEN y
  ELSE IF y = FZero THEN x
  ELSE LET hi == IF x.e >= y.e THEN x ELSE y
           lo == IF x.e >= y.e THEN y ELSE x
           d  == hi.e - lo.e
       IN  IF d >= MantBits + 2 THEN hi
           ELSE RoundF(BigAdd(BigMul(hi.m, Pow2Big(d)), lo.m), lo.e)

\* x - y for x >= y > 0 (then x.e >= y.e, both being normalised)
FSub(x, y) == RoundF(BigSub(BigMul(x.m, Pow2Big(x.e - y.e)), y.m), y.e)

\* long division of a by a small integer d: <<quotient limbs, remainder>>
RECURSIVE DivCols(_, _, _, _)
DivCols(a, d, k, rem) ==
  IF k = 0 THEN <<<<>>, rem>>
  ELSE LET cur  == rem * LimbBase + a[k]
           rest == DivCols(a, d, k - 1, cur % d)
       IN  <<rest[1] \o <<cur \div d>>, rest[2]>>

\* the double a decimal literal num/den denotes (correctly rounded)
FRatio(num, den) ==
  LET dv == DivCols(BigMul(<<num>>, Pow2Big(4 * LimbBits)), den, 6, 0)
      q2 == BigAdd(dv[1], dv[1])
      n  == IF dv[2] # 0 THEN BigAdd(q2, <<1>>) ELSE q2
  IN  RoundF(n, 0 - (4 * LimbBits) - 1)

\* the double of a small non-negative integer literal
FInt(n) == RoundF(<<n>>, 0)


(***************************************************************************)
(* Bounds of the model.                                                    *)
(***************************************************************************)
\* WebSocket chains alive at once (a chain is a socket, or the reconnect timer
\* its onclose leaves behind); each chain keeps one slot
MaxSockets == 2

\* snapshots the server broadcasts in the connection runs
MaxTicks == 2

\* snapshots the server broadcasts in the history runs (more than maxHistoryLength)
HistTicks == 103

\* snapshots the server broadcasts in the orientation runs
ImuTicks == 2

\* snapshots the server broadcasts in the knee runs
KneeTicks == 3

\* snapshots the server broadcasts in the activation runs
BarTicks == 2

\* leading snapshots of the peak runs that may carry an effort
BurstTicks == 1

\* snapshots a socket may hold undelivered
MaxBacklog == 1

\* resetSession calls awaiting their fetch
MaxResets == 2

\* handleModalConfirm calls suspended at an await
MaxConfirms == 2

\* voltages the MyoWare sensor reads at a capture (0 is a legal reading)
Voltages == {0, 2}

Slots == 1..MaxSockets

Outcomes == {"ok", "http_error", "reject"}

(***************************************************************************)
(* State.                                                                  *)
(***************************************************************************)
VARIABLES
  phase,            \* "init" (rendered, effect not yet run) | "mounted" | "unmounted"
  data,             \* useState(null): None or Some(snapshot)
  isConnected,
  history,          \* sequence of snapshots
  smoothImu,
  isCalibrating,
  toastMessage,     \* TRUE while the toast text is set
  toastTimer,       \* TRUE while the timer of toastTimeoutRef is pending
  muscleRange,      \* [rest, peak], each optional
  calibrationStep,  \* "ready" | "rest" | "peak" | "done"
  modalState,       \* [type, open]
  wsRef,            \* 0 (null) or the slot of the socket last created
  sockets,          \* slot -> [st, next]; st is "closed" (slot unused), "connecting",
                    \* "open", "closing", or "waiting" (the socket has closed and its
                    \* setTimeout(connectWebSocket, 3000) is pending)
  resets,           \* resetSession calls suspended at await fetch
  confirms,         \* handleModalConfirm calls suspended at an await
  stream,           \* backend: the snapshots broadcast so far
  srvRest,          \* backend: MuscleCalibration.rest_voltage
  srvPeak,          \* backend: MuscleCalibration.peak_voltage
  restCaptured,     \* a calibrate-muscle(rest) of this client has succeeded
  received,         \* the snapshots handled since the last reset (since the start,
                    \* before the first one)
  event,            \* the handler that ran last, with its outcome, and the one before
  difficulty,       \* useState(1): the selected difficulty level
  value,            \* MuscleActivationBar: the value prop of its last render
  displayValue,     \* MuscleActivationBar: useState(0)
  isActive,         \* MuscleActivationBar: useState(false)
  barTimer          \* MuscleActivationBar: the pending setTimeout of the effect, with
                    \* the value and threshold its callback closes over, and its age

vars == <<phase, data, isConnected, history, smoothImu, isCalibrating, toastMessage,
          toastTimer, muscleRange, calibrationStep, modalState, wsRef, sockets,
          resets, confirms, stream, srvRest, srvPeak, restCaptured, received, event,
          difficulty, value, displayValue, isActive, barTimer>>

barVars == <<difficulty, value, displayValue, isActive, barTimer>>

appVars == <<data, isConnected, history, smoothImu, isCalibrating, toastMessage,
             toastTimer, muscleRange, calibrationStep, modalState>>

netVars == <<wsRef, sockets>>

srvVars == <<stream, srvRest, srvPeak>>

maxHistoryLength == 100

smoothingAlpha == FRatio(8, 10)

createNeutralImu ==
  [thigh |-> [pitch |-> FZero, roll |-> FZero],
   shin  |-> [pitch |-> FZero, roll |-> FZero]]

ClosedSocket == [st |-> "closed", next |-> 0]

\* what a step records in event: the handler, its outcome, and the step before it
Ev(op, outcome) ==
  [op |-> op, outcome |-> outcome, prev |-> [op |-> event.op, outcome |-> event.outcome]]

Init ==
  /\ phase = "init"
  /\ data = None
  /\ isConnected = FALSE
  /\ history = <<>>
  /\ smoothImu = createNeutralImu
  /\ isCalibrating = FALSE
  /\ toastMessage = FALSE
  /\ toastTimer = FALSE
  /\ muscleRange = [rest |-> None, peak |-> None]
  /\ calibrationStep = "ready"
  /\ modalState = [type |-> "null", open |-> FALSE]
  /\ wsRef = 0
  /\ sockets = [s \in Slots |-> ClosedSocket]
  /\ resets = 0
  /\ confirms = <<>>
  /\ stream = <<>>
  /\ srvRest = None
  /\ srvPeak = None
  /\ restCaptured = FALSE
  /\ received = 0
  /\ event = [op |-> "construct", outcome |-> "-", prev |-> [op |-> "-", outcome |-> "-"]]
  /\ difficulty = 1
  /\ value = 0
  /\ displayValue = 0
  /\ isActive = FALSE
  /\ barTimer = None

\* A state setter takes effect only while the component is mounted.
Live == phase = "mounted"

Set(new, old) == IF Live THEN new ELSE old

(***************************************************************************)
(* Backend (from the specification): one snapshot per tick to every        *)
(* subscriber, in order; capture-rest, capture-max, restart.               *)
(***************************************************************************)
Snapshot(t, imu, rel) ==
  [tick |-> t, hasRange |-> TRUE, rest |-> srvRest, peak |-> srvPeak,
   imu |-> imu, raw_imu |-> None, muscle_relative |-> rel]

Backlog(s) == IF sockets[s].st = "open" THEN Len(stream) + 1 - sockets[s].next ELSE 0

Tick(imus, rels, limit) ==
  /\ Len(stream) < limit
  /\ \A s \in Slots : Backlog(s) < MaxBacklog
  /\ \E imu \in imus, rel \in rels :
       stream' = Append(stream, Snapshot(Len(stream) + 1, imu, rel))
  /\ event' = Ev("tick", "-")
  /\ UNCHANGED received
  /\ UNCHANGED barVars
  /\ UNCHANGED <<phase, appVars, netVars, resets, confirms, srvRest, srvPeak, restCaptured>>

\* a snapshot that carries the knee angles; the extension is the complement of
\* the flexion
KneeSnapshot(t, flexion) ==
  Snapshot(t, None, 0) @@ [flexion_angle |-> flexion, extension_angle |-> 180 - flexion]

TickKnee(flexions, limit) ==
  /\ Len(stream) < limit
  /\ \A s \in Slots : Backlog(s) < MaxBacklog
  /\ \E flexion \in flexions :
       stream' = Append(stream, KneeSnapshot(Len(stream) + 1, flexion))
  /\ event' = Ev("tick", "-")
  /\ UNCHANGED received
  /\ UNCHANGED barVars
  /\ UNCHANGED <<phase, appVars, netVars, resets, confirms, srvRest, srvPeak, restCaptured>>

ServerRestart ==
  /\ srvRest # None
  /\ srvRest' = None
  /\ srvPeak' = None
  /\ event' = Ev("serverRestart", "-")
  /\ UNCHANGED received
  /\ UNCHANGED barVars
  /\ UNCHANGED <<phase, appVars, netVars, resets, confirms, stream, restCaptured>>

(***************************************************************************)
(* MuscleActivationBar.  App renders it with value = currentRelative and    *)
(* threshold = the threshold of the selected difficulty; its effect holds   *)
(* one timer, restarted whenever one of the two props changes.              *)
(***************************************************************************)
Min(a, b) == IF a <= b THEN a ELSE b

Max(a, b) == IF a >= b THEN a ELSE b

\* d.f of a JavaScript object: undefined when d has no property f
Field(d, f) == IF f \in DOMAIN d THEN Some(d[f]) ELSE None

\* the truthiness of an optional number: undefined, null and 0 are falsy
Truthy(a) == a # None /\ a[1] # 0

\* a || b on numbers
OrJs(a, b) == IF Truthy(a) THEN a[1] ELSE b

\* muscleRange.rest && muscleRange.peak: the Calibration Range card shows the two
\* voltages when it holds, 'Calibrate to set ranges' otherwise
ShowsRange(range) == Truthy(range.rest) /\ Truthy(range.peak)

\* flexionAngle={data?.flexion_angle || 0} of KneeAnimation
flexionAngle(d) == IF d = None THEN 0 ELSE OrJs(Field(d[1], "flexion_angle"), 0)

\* extensionAngle={data?.extension_angle || 180} of KneeAnimation
extensionAngle(d) == IF d = None THEN 180 ELSE OrJs(Field(d[1], "extension_angle"), 180)

\* the Current Flexion card, data?.flexion_angle?.toFixed(1) || 0: the number it
\* prints (the string toFixed returns is never falsy)
cardFlexion(d) == IF d = None THEN 0 ELSE Coalesce(Field(d[1], "flexion_angle"), 0)

\* the Current Extension card, data?.extension_angle?.toFixed(1) || 180
cardExtension(d) == IF d = None THEN 180 ELSE Coalesce(Field(d[1], "extension_angle"), 180)

\* chartData: flexion: item.flexion_angle || 0
chartFlexion(item) == OrJs(Field(item, "flexion_angle"), 0)

\* chartData: extension: item.extension_angle || 180
chartExtension(item) == OrJs(Field(item, "extension_angle"), 180)

\* the thresholds of difficultyLevels, by level
difficultyLevels == <<20, 35, 50, 65, 80>>

Levels == 1..Len(difficultyLevels)

\* difficultyLevels[difficulty - 1].threshold
Threshold(level) == difficultyLevels[level]

\* the largest of a non-empty set of numbers
Largest(vals) == CHOOSE m \in vals : \A v \in vals : v <= m

\* relativePeak: 0 for an empty history, else
\* Math.max(...history.map((entry) => entry.muscle_relative ?? 0))
relativePeak(h) ==
  IF h = <<>> THEN 0
  ELSE Largest({Coalesce(Field(h[i], "muscle_relative"), 0) : i \in 1..Len(h)})

\* const currentRelative = data?.muscle_relative ?? 0
currentRelative(d) == IF d = None THEN 0 ELSE Coalesce(Field(d[1], "muscle_relative"), 0)

\* the delay of the effect's setTimeout (50 ms), in steps of time
TimerSteps == 2

\* setTimeout(() => { setDisplayValue(value); setIsActive(value >= threshold) }, 50)
StartTimer(v, th) == Some([value |-> v, threshold |-> th, age |-> 0])

\* the effect with the dependencies [value, threshold]: when one of them has
\* changed, the cleanup clears the pending timer and the effect starts a new one
BarEffect(oldV, oldTh, v, th, timer) ==
  IF v = oldV /\ th = oldTh THEN timer ELSE StartTimer(v, th)

\* Math.max(0, displayValue), the lower clamp alone
barHeightNoCeiling(dv) == Max(0, dv)

\* const barHeight = Math.min(100, Math.max(0, displayValue))
barHeight(dv) == Min(100, Max(0, dv))

\* MuscleActivationBar is rendered with a new value prop
Render(v) ==
  /\ phase = "mounted"
  /\ v # value
  /\ value' = v
  /\ barTimer' = BarEffect(value, Threshold(difficulty), v, Threshold(difficulty), barTimer)
  /\ event' = Ev("render", "-")
  /\ UNCHANGED received
  /\ UNCHANGED <<phase, appVars, netVars, resets, confirms, srvVars, restCaptured,
                 difficulty, displayValue, isActive>>

\* onClick={() => setDifficulty(level.level)}
setDifficulty(level) ==
  /\ phase = "mounted"
  /\ difficulty' = level
  /\ barTimer' = BarEffect(value, Threshold(difficulty), value, Threshold(level), barTimer)
  /\ event' = Ev("setDifficulty", "-")
  /\ UNCHANGED received
  /\ UNCHANGED <<phase, appVars, netVars, resets, confirms, srvVars, restCaptured,
                 value, displayValue, isActive>>

\* time passes while the timer is pending
BarElapse ==
  /\ barTimer # None
  /\ barTimer[1].age < TimerSteps
  /\ barTimer' = Some([barTimer[1] EXCEPT !.age = @ + 1])
  /\ event' = Ev("elapse", "-")
  /\ UNCHANGED received
  /\ UNCHANGED <<phase, appVars, netVars, resets, confirms, srvVars, restCaptured,
                 difficulty, value, displayValue, isActive>>

\* the timer's callback, 50 ms after the effect ran
BarTimeout ==
  /\ barTimer # None
  /\ barTimer[1].age = TimerSteps
  /\ displayValue' = barTimer[1].value
  /\ isActive' = (barTimer[1].value >= barTimer[1].threshold)
  /\ barTimer' = None
  /\ event' = Ev("barTimeout", "-")
  /\ UNCHANGED received
  /\ UNCHANGED <<phase, appVars, netVars, resets, confirms, srvVars, restCaptured,
                 difficulty, value>>

(***************************************************************************)
(* The WebSocket chain.                                                    *)
(***************************************************************************)
Chains == Cardinality({s \in Slots : sockets[s].st # "closed"})

FreeSlot(socks) == CHOOSE s \in Slots :
  /\ socks[s].st = "closed"
  /\ \A r \in Slots : socks[r].st = "closed" => s <= r

\* new WebSocket(...); wsRef.current = ws; the handlers are attached to slot s
connectWebSocket(socks, s) ==
  /\ sockets' = [socks EXCEPT ![s] = [st |-> "connecting", next |-> 0]]
  /\ wsRef' = s

\* wsRef.current.close() of the effect's cleanup
CloseRef(socks) ==
  IF wsRef # 0 /\ socks[wsRef].st \in {"connecting", "open"}
  THEN [socks EXCEPT ![wsRef] = [st |-> "closing", next |-> 0]]
  ELSE socks

Mount ==
  /\ phase = "init"
  /\ phase' = "mounted"
  /\ connectWebSocket(sockets, FreeSlot(sockets))
  /\ barTimer' = StartTimer(value, Threshold(difficulty))
  /\ event' = Ev("mount", "-")
  /\ UNCHANGED received
  /\ UNCHANGED <<difficulty, value, displayValue, isActive>>
  /\ UNCHANGED <<appVars, resets, confirms, srvVars, restCaptured>>

WsOpen(s) ==
  /\ sockets[s].st = "connecting"
  /\ sockets' = [sockets EXCEPT ![s] = [st |-> "open", next |-> Len(stream) + 1]]
  /\ isConnected' = Set(TRUE, isConnected)
  /\ event' = Ev("ws.onopen", "-")
  /\ UNCHANGED received
  /\ UNCHANGED barVars
  /\ UNCHANGED <<phase, data, history, smoothImu, isCalibrating, toastMessage, toastTimer,
                 muscleRange, calibrationStep, modalState, wsRef, resets,
                 confirms, srvVars, restCaptured>>


\* const imuPayload = newData?.imu || newData?.raw_imu || {}
ImuPayload(newData) ==
  IF newData.imu # None THEN newData.imu[1]
  ELSE IF newData.raw_imu # None THEN newData.raw_imu[1]
  ELSE [thigh |-> None, shin |-> None]

\* smoothingAlpha * prev + (1 - smoothingAlpha) * new
Blend(prev, new) ==
  FAdd(FMul(smoothingAlpha, prev), FMul(FSub(FInt(1), smoothingAlpha), new))

\* segments.forEach filling a missing segment with zeros instead of keeping it
SmoothSegmentZeroFill(prevSegment, incoming) ==
  LET newPitch == IF incoming = None THEN FZero
                  ELSE Coalesce(incoming[1].pitch, prevSegment.pitch)
      newRoll  == IF incoming = None THEN FZero
                  ELSE Coalesce(incoming[1].roll, prevSegment.roll)
  IN  [pitch |-> Blend(prevSegment.pitch, newPitch),
       roll  |-> Blend(prevSegment.roll, newRoll)]

\* the body of segments.forEach: incoming is the optional {pitch, roll} of the payload
SmoothSegment(prevSegment, incoming) ==
  IF incoming = None THEN prevSegment
  ELSE LET newPitch == Coalesce(incoming[1].pitch, prevSegment.pitch)
           newRoll  == Coalesce(incoming[1].roll, prevSegment.roll)
       IN  [pitch |-> Blend(prevSegment.pitch, newPitch),
            roll  |-> Blend(prevSegment.roll, newRoll)]

\* the updater passed to setSmoothImu
SmoothImu(prev, imuPayload) ==
  [thigh |-> SmoothSegment(prev.thigh, imuPayload.thigh),
   shin  |-> SmoothSegment(prev.shin, imuPayload.shin)]

\* updated.slice(-maxHistoryLength)
LastN(q, n) == IF Len(q) <= n THEN q ELSE SubSeq(q, Len(q) - n + 1, Len(q))

\* setHistory without the slice
PushHistoryKeepAll(prev, newData) == Append(prev, newData)

\* the updater passed to setHistory
PushHistory(prev, newData) == LastN(Append(prev, newData), maxHistoryLength)

\* the muscleRange a snapshot sets
RangeOf(newData, old) ==
  IF newData.hasRange THEN [rest |-> newData.rest, peak |-> newData.peak] ELSE old

WsMessage(s) ==
  /\ sockets[s].st = "open"
  /\ sockets[s].next <= Len(stream)
  /\ LET newData == stream[sockets[s].next]
     IN  /\ data' = Set(Some(newData), data)
         /\ muscleRange' = Set(RangeOf(newData, muscleRange), muscleRange)
         /\ smoothImu' = Set(SmoothImu(smoothImu, ImuPayload(newData)), smoothImu)
         /\ history' = Set(PushHistory(history, newData), history)
  /\ received' = Set(received + 1, received)
  /\ value' = currentRelative(data')
  /\ barTimer' = BarEffect(value, Threshold(difficulty), value', Threshold(difficulty),
                           barTimer)
  /\ sockets' = [sockets EXCEPT ![s].next = @ + 1]
  /\ event' = Ev("ws.onmessage", "-")
  /\ UNCHANGED <<difficulty, displayValue, isActive>>
  /\ UNCHANGED <<phase, isConnected, isCalibrating, toastMessage, toastTimer,
                 calibrationStep, modalState, wsRef, resets, confirms, srvVars,
                 restCaptured>>

\* the connection fails; the close event follows
WsError(s) ==
  /\ sockets[s].st \in {"connecting", "open"}
  /\ sockets' = [sockets EXCEPT ![s] = [st |-> "closing", next |-> 0]]
  /\ isConnected' = Set(FALSE, isConnected)
  /\ event' = Ev("ws.onerror", "-")
  /\ UNCHANGED received
  /\ UNCHANGED barVars
  /\ UNCHANGED <<phase, data, history, smoothImu, isCalibrating, toastMessage, toastTimer,
                 muscleRange, calibrationStep, modalState, wsRef, resets,
                 confirms, srvVars, restCaptured>>

\* onclose without the setTimeout
NoReconnect == ClosedSocket

\* setTimeout(connectWebSocket, 3000): what onclose leaves in the slot
ScheduleReconnect == [st |-> "waiting", next |-> 0]

WsClose(s) ==
  /\ sockets[s].st \in {"open", "closing"}
  /\ sockets' = [sockets EXCEPT ![s] = ScheduleReconnect]
  /\ isConnected' = Set(FALSE, isConnected)
  /\ event' = Ev("ws.onclose", "-")
  /\ UNCHANGED received
  /\ UNCHANGED barVars
  /\ UNCHANGED <<phase, data, history, smoothImu, isCalibrating, toastMessage, toastTimer,
                 muscleRange, calibrationStep, modalState, wsRef, resets, confirms,
                 srvVars, restCaptured>>

\* the 3000 ms timer fires
Reconnect(s) ==
  /\ sockets[s].st = "waiting"
  /\ connectWebSocket(sockets, s)
  /\ event' = Ev("reconnect", "-")
  /\ UNCHANGED received
  /\ UNCHANGED barVars
  /\ UNCHANGED <<phase, appVars, resets, confirms, srvVars, restCaptured>>

\* the effect's cleanup followed at once by its setup, on the same component
\* (React runs effects this way under StrictMode and on a Fast Refresh)
Remount ==
  /\ phase = "mounted"
  /\ Chains < MaxSockets
  /\ connectWebSocket(CloseRef(sockets), FreeSlot(sockets))
  /\ toastTimer' = FALSE
  /\ barTimer' = StartTimer(value, Threshold(difficulty))
  /\ event' = Ev("remount", "-")
  /\ UNCHANGED received
  /\ UNCHANGED <<difficulty, value, displayValue, isActive>>
  /\ UNCHANGED <<phase, data, isConnected, history, smoothImu, isCalibrating,
                 toastMessage, muscleRange, calibrationStep, modalState, resets,
                 confirms, srvVars, restCaptured>>

\* the effect's cleanup when the component goes away
Unmount ==
  /\ phase = "mounted"
  /\ phase' = "unmounted"
  /\ sockets' = CloseRef(sockets)
  /\ toastTimer' = FALSE
  /\ barTimer' = None
  /\ event' = Ev("unmount", "-")
  /\ UNCHANGED received
  /\ UNCHANGED <<difficulty, value, displayValue, isActive>>
  /\ UNCHANGED <<data, isConnected, history, smoothImu, isCalibrating, toastMessage,
                 muscleRange, calibrationStep, modalState, wsRef, resets,
                 confirms, srvVars, restCaptured>>


(***************************************************************************)
(* Control commands.  An await is a suspension point: the click runs the   *)
(* handler up to its first await, the answer of the request resumes it.    *)
(***************************************************************************)
\* fetch() rejects on a network failure only; any HTTP status resolves it
FetchResolves(outcome) == outcome # "reject"

\* a ?? b on optional values
OrElse(a, b) == IF a # None THEN a ELSE b

RemoveAt(q, i) == SubSeq(q, 1, i - 1) \o SubSeq(q, i + 1, Len(q))

ClickReset ==
  /\ phase = "mounted"
  /\ resets < MaxResets
  /\ resets' = resets + 1
  /\ event' = Ev("click.reset", "-")
  /\ UNCHANGED received
  /\ UNCHANGED barVars
  /\ UNCHANGED <<phase, appVars, netVars, confirms, srvVars, restCaptured>>

\* a reset that drops the oldest snapshot only
ClearHistoryDropOldest(prev) == IF prev = <<>> THEN prev ELSE Tail(prev)

\* setHistory([]) of resetSession
ClearHistory(prev) == <<>>

\* resetSession, from the answer of POST /reset on
ResetDone(outcome) ==
  /\ resets > 0
  /\ resets' = resets - 1
  /\ IF FetchResolves(outcome)
     THEN /\ history' = Set(ClearHistory(history), history)
          /\ muscleRange' = Set([rest |-> None, peak |-> None], muscleRange)
          /\ calibrationStep' = Set("ready", calibrationStep)
          /\ received' = Set(0, received)
     ELSE UNCHANGED <<history, muscleRange, calibrationStep, received>>
  /\ event' = Ev("resetSession", outcome)
  /\ UNCHANGED barVars
  /\ UNCHANGED <<phase, data, isConnected, smoothImu, isCalibrating, toastMessage,
                 toastTimer, modalState, netVars, confirms, srvVars, restCaptured>>

\* the step openUnifiedModal sets
OpenStep == "rest"

\* openUnifiedModal
ClickInitialize ==
  /\ phase = "mounted"
  /\ modalState' = [type |-> "unified", open |-> TRUE]
  /\ calibrationStep' = OpenStep
  /\ event' = Ev("openUnifiedModal", "-")
  /\ UNCHANGED received
  /\ UNCHANGED barVars
  /\ UNCHANGED <<phase, data, isConnected, history, smoothImu, isCalibrating,
                 toastMessage, toastTimer, muscleRange, netVars, resets, confirms,
                 srvVars, restCaptured>>

\* closeModal, from the Cancel button
ClickCancel ==
  /\ phase = "mounted"
  /\ modalState.open
  /\ modalState' = [type |-> "null", open |-> FALSE]
  /\ event' = Ev("closeModal", "-")
  /\ UNCHANGED received
  /\ UNCHANGED barVars
  /\ UNCHANGED <<phase, data, isConnected, history, smoothImu, isCalibrating,
                 toastMessage, toastTimer, muscleRange, calibrationStep, netVars, resets,
                 confirms, srvVars, restCaptured>>

\* handleModalConfirm with the two captures in the wrong branches
ModeOfSwapped(step) ==
  IF step = "rest" THEN "max" ELSE IF step = "peak" THEN "rest" ELSE "none"

\* the mode handleModalConfirm asks calibrateMuscleStep for, "none" when it asks nothing
ModeOf(step) ==
  IF step = "rest" THEN "rest" ELSE IF step = "peak" THEN "max" ELSE "none"

\* a Confirm button that is never disabled
confirmNeverDisabled == FALSE

\* modalCopy.unified.confirmDisabled, the disabled attribute of the Confirm button
confirmDisabled == isCalibrating

\* handleModalConfirm up to its first await
ClickConfirm ==
  /\ phase = "mounted"
  /\ modalState.open
  /\ ~confirmDisabled
  /\ Len(confirms) < MaxConfirms
  /\ IF ModeOf(calibrationStep) # "none"
     THEN /\ isCalibrating' = TRUE
          /\ confirms' = Append(confirms, [pc |-> "muscle", mode |-> ModeOf(calibrationStep),
                                           range |-> muscleRange])
     ELSE UNCHANGED <<isCalibrating, confirms>>
  /\ event' = Ev("handleModalConfirm", ModeOf(calibrationStep))
  /\ UNCHANGED received
  /\ UNCHANGED barVars
  /\ UNCHANGED <<phase, data, isConnected, history, smoothImu, toastMessage, toastTimer,
                 muscleRange, calibrationStep, modalState, netVars, resets, srvVars,
                 restCaptured>>

\* what POST /muscle/calibrate?mode= does on the backend with the reading v
Answer(mode, outcome) ==
  IF outcome = "ok" /\ mode = "max" /\ srvRest = None THEN "http_error" ELSE outcome

\* calibrateMuscleStep without the response.ok check
MuscleOkUnchecked(outcome) == outcome # "reject"

\* calibrateMuscleStep throws unless the response is ok
MuscleOk(outcome) == outcome = "ok"

\* the muscleRange calibrateMuscleStep sets from the result; range is the muscleRange
\* of the render whose handler was clicked
MergedRange(result, range) ==
  [rest |-> OrElse(result.rest_voltage, range.rest),
   peak |-> OrElse(result.peak_voltage, range.peak)]

\* handleModalConfirm, from the answer of POST /muscle/calibrate on
MuscleResponse(i, outcome, v) ==
  /\ i \in 1..Len(confirms)
  /\ confirms[i].pc = "muscle"
  /\ LET c   == confirms[i]
         ans == Answer(c.mode, outcome)
         newRest == IF ans = "ok" /\ c.mode = "rest" THEN Some(v) ELSE srvRest
         newPeak == IF ans = "ok" /\ c.mode = "max" THEN Some(v) ELSE srvPeak
         result  == [rest_voltage |-> newRest, peak_voltage |-> newPeak]
     IN  /\ srvRest' = newRest
         /\ srvPeak' = newPeak
         /\ event' = Ev("calibrateMuscleStep", ans)
         /\ UNCHANGED received
         /\ UNCHANGED barVars
         /\ IF MuscleOk(ans)
            THEN /\ muscleRange' = Set(MergedRange(result, c.range), muscleRange)
                 /\ IF c.mode = "rest"
                    THEN /\ confirms' = [confirms EXCEPT ![i].pc = "imu"]
                         /\ restCaptured' = TRUE
                         /\ UNCHANGED <<isCalibrating, toastMessage, toastTimer,
                                        calibrationStep, modalState>>
                    ELSE /\ confirms' = RemoveAt(confirms, i)
                         /\ toastMessage' = Set(TRUE, toastMessage)
                         /\ toastTimer' = TRUE
                         /\ calibrationStep' = Set("done", calibrationStep)
                         /\ modalState' = Set([type |-> "null", open |-> FALSE], modalState)
                         /\ isCalibrating' = Set(FALSE, isCalibrating)
                         /\ UNCHANGED restCaptured
            ELSE /\ confirms' = RemoveAt(confirms, i)
                 /\ isCalibrating' = Set(FALSE, isCalibrating)
                 /\ UNCHANGED <<muscleRange, toastMessage, toastTimer, calibrationStep,
                                modalState, restCaptured>>
  /\ UNCHANGED <<phase, data, isConnected, history, smoothImu, netVars, resets, stream>>

\* calibrateImu without the setSmoothImu
calibrateImuKeep(outcome, prev) == prev

\* calibrateImu: the smoothImu it leaves, given the outcome of its fetch
calibrateImu(outcome, prev) == IF FetchResolves(outcome) THEN createNeutralImu ELSE prev

\* handleModalConfirm, from the answer of POST /imu/calibrate on
ImuResponse(i, outcome) ==
  /\ i \in 1..Len(confirms)
  /\ confirms[i].pc = "imu"
  /\ confirms' = RemoveAt(confirms, i)
  /\ smoothImu' = Set(calibrateImu(outcome, smoothImu), smoothImu)
  /\ IF FetchResolves(outcome)
     THEN calibrationStep' = Set("peak", calibrationStep)
     ELSE UNCHANGED calibrationStep
  /\ isCalibrating' = Set(FALSE, isCalibrating)
  /\ event' = Ev("calibrateImu", outcome)
  /\ UNCHANGED received
  /\ UNCHANGED barVars
  /\ UNCHANGED <<phase, data, isConnected, history, toastMessage, toastTimer, muscleRange,
                 modalState, netVars, resets, srvVars, restCaptured>>

\* () => setToastMessage(null), 3000 ms after the toast was set
ToastExpire ==
  /\ toastTimer
  /\ toastTimer' = FALSE
  /\ toastMessage' = Set(FALSE, toastMessage)
  /\ event' = Ev("toastTimeout", "-")
  /\ UNCHANGED received
  /\ UNCHANGED barVars
  /\ UNCHANGED <<phase, data, isConnected, history, smoothImu, isCalibrating, muscleRange,
                 calibrationStep, modalState, netVars, resets, confirms, srvVars,
                 restCaptured>>

(***************************************************************************)
(* Specifications.                                                         *)
(***************************************************************************)
\* The guided calibration and reset-session against the backend.
Next ==
  \/ Mount
  \/ ClickReset
  \/ \E o \in Outcomes : ResetDone(o)
  \/ ClickInitialize
  \/ ClickCancel
  \/ ClickConfirm
  \/ \E i \in 1..MaxConfirms, o \in Outcomes, v \in Voltages : MuscleResponse(i, o, v)
  \/ \E i \in 1..MaxConfirms, o \in Outcomes : ImuResponse(i, o)
  \/ ToastExpire
  \/ ServerRestart

Spec == Init /\ [][Next]_vars

\* One connection receiving a long stream, with reset-session.
NextHistory ==
  \/ Mount
  \/ \E s \in Slots : WsOpen(s)
  \/ Tick({None}, {0}, HistTicks)
  \/ \E s \in Slots : WsMessage(s)
  \/ ClickReset
  \/ \E o \in Outcomes : ResetDone(o)

SpecHistory == Init /\ [][NextHistory]_vars

\* angle readings of the orientation runs: a segment is absent, complete, or
\* lacks its pitch or its roll
SegInputs ==
  {None,
   Some([pitch |-> Some(FInt(39)), roll |-> Some(FInt(39))]),
   Some([pitch |-> None, roll |-> Some(FInt(39))]),
   Some([pitch |-> Some(FInt(39)), roll |-> None])}

ImuInputs == {None} \cup {Some([thigh |-> t, shin |-> h]) : t \in SegInputs, h \in SegInputs}

\* One connection receiving orientation readings.
NextImu ==
  \/ Mount
  \/ \E s \in Slots : WsOpen(s)
  \/ Tick(ImuInputs, {0}, ImuTicks)
  \/ \E s \in Slots : WsMessage(s)

SpecImu == Init /\ [][NextImu]_vars

\* orientation readings of the calibration runs
ZeroInputs ==
  {Some([thigh |-> Some([pitch |-> Some(FInt(39)), roll |-> Some(FInt(39))]),
         shin  |-> Some([pitch |-> Some(FInt(39)), roll |-> Some(FInt(39))])])}

\* The guided calibration while orientation readings arrive.
NextZero ==
  \/ Mount
  \/ \E s \in Slots : WsOpen(s)
  \/ Tick(ZeroInputs, {0}, ImuTicks)
  \/ \E s \in Slots : WsMessage(s)
  \/ ClickInitialize
  \/ ClickConfirm
  \/ \E i \in 1..MaxConfirms, o \in Outcomes, v \in Voltages : MuscleResponse(i, o, v)
  \/ \E i \in 1..MaxConfirms, o \in Outcomes : ImuResponse(i, o)

SpecZero == Init /\ [][NextZero]_vars

\* flexion angles of the knee runs, the two ends of [0, 180] among them
Flexions == {0, 90, 180}

\* One connection receiving knee angles.
NextKnee ==
  \/ Mount
  \/ \E s \in Slots : WsOpen(s)
  \/ TickKnee(Flexions, KneeTicks)
  \/ \E s \in Slots : WsMessage(s)

SpecKnee == Init /\ [][NextKnee]_vars

\* relative activations of the activation runs: below 0, inside and above 100
Activations == {-5, 50, 120}

\* One connection receiving activations, the difficulty buttons, and the bar's timer.
NextBar ==
  \/ Mount
  \/ \E s \in Slots : WsOpen(s)
  \/ Tick({None}, Activations, BarTicks)
  \/ \E s \in Slots : WsMessage(s)
  \/ \E level \in Levels : setDifficulty(level)
  \/ BarElapse
  \/ BarTimeout

SpecBar == Init /\ [][NextBar]_vars

\* MuscleActivationBar on its own, rendered with one value after another without
\* end (the stream is not recorded, so that the runs can go on forever).
NextBarLoop ==
  \/ Mount
  \/ \E v \in Activations \cup {0} : Render(v)
  \/ \E level \in Levels : setDifficulty(level)
  \/ BarElapse
  \/ BarTimeout

SpecBarLoop == Init /\ [][NextBarLoop]_vars

\* Time passes, and a timer that is due again and again runs its callback.
SpecBarFair == SpecBarLoop /\ WF_vars(BarElapse) /\ SF_vars(BarTimeout)

\* relative activations of the peak runs: an effort in the first snapshots, rest
\* from then on
PeakRels(t) == IF t <= BurstTicks THEN {0, 50} ELSE {0}

\* One connection receiving a long stream of activations, with reset-session.
NextPeak ==
  \/ Mount
  \/ \E s \in Slots : WsOpen(s)
  \/ Tick({None}, PeakRels(Len(stream) + 1), HistTicks)
  \/ \E s \in Slots : WsMessage(s)
  \/ ClickReset
  \/ \E o \in Outcomes : ResetDone(o)

SpecPeak == Init /\ [][NextPeak]_vars

\* The connection: effect runs, errors, closes, reconnects, and a short stream.
NextStream ==
  \/ Mount
  \/ Remount
  \/ Unmount
  \/ \E s \in Slots : WsOpen(s)
  \/ \E s \in Slots : WsError(s)
  \/ \E s \in Slots : WsClose(s)
  \/ \E s \in Slots : Reconnect(s)
  \/ Tick({None}, {0}, MaxTicks)
  \/ \E s \in Slots : WsMessage(s)

SpecStream == Init /\ [][NextStream]_vars

\* A pending timer fires: the browser runs every timer that is due.
SpecStreamFair == SpecStream /\ \A s \in Slots : WF_vars(Reconnect(s))


(***************************************************************************)
(* Properties.                                                             *)
(***************************************************************************)
IsMessage == \E s \in Slots : WsMessage(s)

\* history is the run of the stream that ends at the snapshot delivered last
HistoryIsLatestRun ==
  history # <<>> =>
    /\ wsRef # 0
    /\ sockets[wsRef].st = "open"
    /\ LET d == sockets[wsRef].next - 1
       IN  /\ Len(history) <= d
           /\ history = SubSeq(stream, d - Len(history) + 1, d)

\* C1: the history never holds more than maxHistoryLength = 100 snapshots; each
\* snapshot received lengthens it by one until it holds 100 and leaves it at 100
\* from then on; it only changes by a snapshot or by a reset that empties it; and
\* it is always the latest snapshots received, in arrival order.
C1_HistoryBound ==
  /\ [](Len(history) <= maxHistoryLength /\ HistoryIsLatestRun)
  /\ [][IsMessage => Len(history') = Min(Len(history) + 1, maxHistoryLength)]_vars
  /\ [][history' # history =>
          \/ IsMessage
          \/ event'.op = "resetSession" /\ history' = <<>>]_vars

C1_Witness ==
  /\ event.op = "ws.onmessage"
  /\ Len(history) = maxHistoryLength
  /\ history[1].tick = 3
  /\ history[maxHistoryLength].tick = maxHistoryLength + 2

\* C2: a reset-session leaves the calibration range and the calibration step as
\* they were.
C2_ResetKeepsCalibration ==
  [][event'.op = "resetSession" =>
       muscleRange' = muscleRange /\ calibrationStep' = calibrationStep]_vars

StepTable ==
  {<<"ready", "rest">>, <<"rest", "peak">>, <<"peak", "done">>, <<"done", "rest">>}

\* C3: the calibration step changes only along ready -> rest -> peak -> done and
\* done -> rest; it enters peak only from rest and done only from peak.
C3_StepFollowsTable ==
  [][calibrationStep' # calibrationStep =>
       <<calibrationStep, calibrationStep'>> \in StepTable]_vars

\* C4: a calibrate-muscle(mode=max) request is in flight only after a
\* calibrate-muscle(mode=rest) request of this client has succeeded.
C4_MaxAfterRest ==
  \A i \in 1..Len(confirms) : confirms[i].mode = "max" => restCaptured

C4_Witness ==
  /\ event.op = "handleModalConfirm"
  /\ event.outcome = "max"
  /\ Len(confirms) = 1
  /\ confirms[1].mode = "max"
  /\ confirms[1].pc = "muscle"

\* C5: a confirm whose calibrate-muscle request is rejected (the fetch rejects, or
\* the answer is not ok) changes neither the muscle range nor the calibration
\* step, neither when it is pressed nor when the rejection arrives.
C5_RejectedCaptureKeepsCalibration ==
  [][(\/ event'.op = "handleModalConfirm"
      \/ event'.op = "calibrateMuscleStep" /\ event'.outcome # "ok") =>
       muscleRange' = muscleRange /\ calibrationStep' = calibrationStep]_vars

C5_Witness ==
  /\ event.op = "calibrateMuscleStep"
  /\ event.outcome = "http_error"
  /\ calibrationStep = "peak"
  /\ muscleRange.rest # None
  /\ srvRest = None
  /\ ~isCalibrating

\* C6: the step moves from rest to peak only when the calibrate-IMU command has
\* succeeded after a successful capture of the rest voltage, and a calibrate-IMU
\* command that fails leaves the step as it was.
C6_PeakOnlyAfterImuSuccess ==
  /\ [][calibrationStep = "rest" /\ calibrationStep' = "peak" =>
          event' = Ev("calibrateImu", "ok") /\ restCaptured]_vars
  /\ [][event'.op = "calibrateImu" /\ event'.outcome # "ok" =>
          calibrationStep' = calibrationStep]_vars

\* C7: a reset-session or calibrate-IMU command that returns an error changes
\* none of history, muscle range, calibration step and smoothed orientation.
C7_ControlErrorKeepsState ==
  [][event'.op \in {"resetSession", "calibrateImu"} /\ event'.outcome # "ok" =>
       UNCHANGED <<history, muscleRange, calibrationStep, smoothImu>>]_vars


\* C8: while the app is mounted, every close of the connection leaves a reconnect
\* timer pending, a pending timer is never dropped, and it leads to a new
\* connection attempt, each time again.
C8_ReconnectsForever ==
  /\ [][\A s \in Slots :
          sockets[s].st \in {"open", "closing"} /\ sockets'[s].st \notin {"open", "closing"}
            /\ phase = "mounted"
          => sockets'[s].st = "waiting"]_vars
  /\ [][\A s \in Slots :
          sockets[s].st = "waiting" /\ sockets'[s].st # "waiting"
          => sockets'[s].st = "connecting" /\ wsRef' = s]_vars
  /\ \A s \in Slots :
       [](sockets[s].st = "waiting" /\ phase = "mounted" => <>(sockets[s].st = "connecting"))

C8_Witness ==
  /\ event.op = "reconnect"
  /\ phase = "mounted"
  /\ \E s \in Slots : sockets[s].st = "connecting" /\ wsRef = s
  /\ Len(stream) = MaxTicks
  /\ Len(history) = 1

\* C9: the history holds its snapshots in strictly increasing tick order: none
\* twice, none after a later one.
C9_HistoryStrictlyOrdered ==
  \A i, j \in 1..Len(history) : i < j => history[i].tick < history[j].tick


Segments == {"thigh", "shin"}

Fields == {"pitch", "roll"}

\* x and y are the same double or neighbouring doubles
FWithinUlp(x, y) ==
  \/ x = y
  \/ x.e = y.e /\ (SubSeq(BigAdd(x.m, <<1>>), 1, 4) = y.m \/ SubSeq(BigAdd(y.m, <<1>>), 1, 4) = x.m)
  \/ x.e + 1 = y.e /\ BitLen(BigAdd(x.m, <<1>>)) > MantBits /\ BitLen(BigSub(y.m, <<1>>)) < MantBits
  \/ y.e + 1 = x.e /\ BitLen(BigAdd(y.m, <<1>>)) > MantBits /\ BitLen(BigSub(x.m, <<1>>)) < MantBits

\* the snapshot a ws.onmessage step has just handled
Handled(d) == ImuPayload(d[1])

\* C10 as stated: a snapshot without a segment leaves that segment's estimate as it
\* was while a segment it carries is blended, and a pitch or roll missing from a
\* segment it carries leaves that field's estimate as it was.
C10_CarryForwardExact ==
  [][IsMessage =>
       \A g \in Segments :
         LET in == Handled(data')[g]
         IN  /\ in = None => smoothImu'[g] = smoothImu[g]
             /\ in # None =>
                  \A f \in Fields :
                    /\ in[1][f] = None => smoothImu'[g][f] = smoothImu[g][f]
                    /\ in[1][f] # None =>
                         smoothImu'[g][f] = Blend(smoothImu[g][f], in[1][f][1])]_vars

\* C10 as amended: a snapshot without a segment leaves that segment's estimate
\* exactly as it was while a segment it carries is blended; a pitch or roll
\* missing from a segment it carries is blended with its own previous estimate,
\* which leaves it the same double or moves it to a neighbouring one.
C10_CarryForward ==
  [][IsMessage =>
       \A g \in Segments :
         LET in == Handled(data')[g]
         IN  /\ in = None => smoothImu'[g] = smoothImu[g]
             /\ in # None =>
                  \A f \in Fields :
                    /\ in[1][f] = None =>
                         /\ smoothImu'[g][f] = Blend(smoothImu[g][f], smoothImu[g][f])
                         /\ FWithinUlp(smoothImu'[g][f], smoothImu[g][f])
                    /\ in[1][f] # None =>
                         smoothImu'[g][f] = Blend(smoothImu[g][f], in[1][f][1])]_vars

C10_Witness ==
  /\ event.op = "ws.onmessage"
  /\ Len(history) = 2
  /\ Handled(data).thigh # None
  /\ Handled(data).thigh[1].pitch = None
  /\ Handled(data).thigh[1].roll # None
  /\ Handled(data).shin = None
  /\ smoothImu.shin.pitch # FZero
  /\ smoothImu.thigh.pitch # FZero
  /\ smoothImu.thigh.pitch # Blend(FZero, FInt(39))

\* C11: a calibrate-IMU command that completes leaves the orientation estimate of
\* thigh and shin at pitch 0, roll 0; nothing but a snapshot or a calibrate-IMU
\* changes the estimate; and the snapshot handled next is blended against that
\* zero estimate.
C11_ImuCalibrationZeroes ==
  /\ [][event'.op = "calibrateImu" /\ FetchResolves(event'.outcome) =>
          smoothImu' = createNeutralImu]_vars
  /\ [][smoothImu' # smoothImu => IsMessage \/ event'.op = "calibrateImu"]_vars
  /\ [][event.op = "calibrateImu" /\ FetchResolves(event.outcome) /\ IsMessage =>
          smoothImu' = SmoothImu(createNeutralImu, Handled(data'))]_vars

C11_Witness ==
  /\ event.op = "ws.onmessage"
  /\ event.prev.op = "calibrateImu"
  /\ FetchResolves(event.prev.outcome)
  /\ Len(history) = 2
  /\ history[1].imu # None
  /\ Handled(data).thigh # None
  /\ smoothImu = SmoothImu(createNeutralImu, Handled(data))
  /\ smoothImu.thigh.pitch # FZero
  /\ smoothImu # SmoothImu(SmoothImu(createNeutralImu, ImuPayload(history[1])), Handled(data))

\* C12: a reset-session that directly follows a completed reset-session changes
\* nothing: the history stays empty, the muscle range and the calibration step
\* stay as the first reset left them.
C12_ResetIdempotent ==
  [][event'.op = "resetSession" /\ event.op = "resetSession" /\ FetchResolves(event.outcome) =>
       history = <<>> /\ UNCHANGED <<history, muscleRange, calibrationStep>>]_vars

C12_Witness ==
  /\ event.op = "resetSession"
  /\ FetchResolves(event.outcome)
  /\ event.prev.op = "resetSession"
  /\ FetchResolves(event.prev.outcome)
  /\ history = <<>>
  /\ data # None
  /\ data[1].tick >= 2

\* C13: the Calibration Range card shows the range exactly when both the rest and
\* the peak voltage are set, a voltage of 0 included; the placeholder is shown
\* only when one of them is absent.
C13_RangeShownWhenCalibrated ==
  ShowsRange(muscleRange) <=> (muscleRange.rest # None /\ muscleRange.peak # None)

\* C14: the extension the client shows is 180 minus the flexion it shows, in the
\* knee animation, on the cards and in every point of the chart, at flexion 0
\* and at flexion 180 as well.
C14_ExtensionIsComplement ==
  /\ extensionAngle(data) = 180 - flexionAngle(data)
  /\ cardExtension(data) = 180 - cardFlexion(data)
  /\ \A i \in 1..Len(history) :
       chartExtension(history[i]) = 180 - chartFlexion(history[i])

\* C15: the height of the activation bar lies in [0, 100], equals the displayed
\* value when that lies in [0, 100], and is non-decreasing in the value; the
\* value the timer displays is the activation received last.
C15_BarHeightSaturates ==
  /\ [](/\ barHeight(displayValue) \in 0..100
        /\ displayValue \in 0..100 => barHeight(displayValue) = displayValue
        /\ \A v \in Activations \cup {0} :
             /\ v <= displayValue => barHeight(v) <= barHeight(displayValue)
             /\ v >= displayValue => barHeight(v) >= barHeight(displayValue))
  /\ [][event'.op = "barTimeout" => displayValue' = currentRelative(data)]_vars

C15_Witness ==
  /\ event.op = "barTimeout"
  /\ displayValue = 120
  /\ barHeight(displayValue) = 100
  /\ Len(history) = 2
  /\ history[1].muscle_relative = -5

\* C16: the bar is active only if the value it displays is at least the threshold
\* of the selected difficulty.
C16_ActiveOnlyAtThreshold ==
  isActive => displayValue >= Threshold(difficulty)

\* C17: the displayed value catches up with the value received, again and again.
C17_BarKeepsUp ==
  []<>(displayValue = value)

\* C18: while the calibration modal is open the calibration step is rest or peak.
C18_ModalStepIsCapture ==
  modalState.open => calibrationStep \in {"rest", "peak"}

\* C19: once the component has unmounted, every socket is closed or closing: no
\* connection is being opened, none is open, and no reconnect timer is pending.
C19_UnmountReleasesConnection ==
  phase = "unmounted" => \A s \in Slots : sockets[s].st \in {"closed", "closing"}

\* C20: isCalibrating is true exactly while a confirm is suspended at a request,
\* at most one confirm is suspended at a time, a confirm starts only while
\* isCalibrating is false, and a confirm that ends leaves isCalibrating false.
C20_OneConfirmAtATime ==
  /\ [](Len(confirms) <= 1 /\ (isCalibrating <=> confirms # <<>>))
  /\ [][event'.op = "handleModalConfirm" => ~isCalibrating /\ confirms = <<>>]_vars
  /\ [][Len(confirms') < Len(confirms) => ~isCalibrating']_vars

C20_Witness ==
  /\ event.op = "handleModalConfirm"
  /\ event.outcome = "max"
  /\ event.prev.op = "calibrateImu"
  /\ isCalibrating
  /\ Len(confirms) = 1
  /\ modalState.open

\* the snapshots the connection has delivered so far
Delivered ==
  IF wsRef # 0 /\ sockets[wsRef].st = "open"
  THEN SubSeq(stream, 1, sockets[wsRef].next - 1)
  ELSE <<>>

\* C21: the relative peak shown never decreases when a snapshot arrives, and it
\* is the largest muscle_relative received since the last reset, 0 when none
\* has been received.
C21_PeakIsSessionMax ==
  /\ [][IsMessage => relativePeak(history') >= relativePeak(history)]_vars
  /\ [](relativePeak(history) =
          IF received = 0 THEN 0
          ELSE Largest({Delivered[i].muscle_relative :
                          i \in (Len(Delivered) - received + 1)..Len(Delivered)}))

====
